---- MODULE Spec2Model ----
(***************************************************************************)
(* Model of two programs of the repository:                                *)
(*                                                                         *)
(*  - the POST /ask handler of src/src/app.py: validate input, call the    *)
(*    model, validate output, shape the JSON response.  Several requests   *)
(*    are in flight at once (Flask serves each request on its own thread); *)
(*    the handler's steps interleave at its three external calls.          *)
(*                                                                         *)
(*  - the SecurityScanner of src/automation/security_scan.py and its       *)
(*    main(): five checks in sequence, a score, an exit code.              *)
(*                                                                         *)
(* A text is a sequence of string pieces; the pieces in Whitespace are the *)
(* whitespace characters.  An f-string is the concatenation of its parts.  *)
(***************************************************************************)
EXTENDS Integers, Sequences, FiniteSets, TLC

\* ------------------------------------------------------------------ bounds
\* Number of /ask requests in flight at once.
NumReqs == 2

\* Largest count of findings of one severity that Bandit reports.
MaxSev == 3

\* Largest number of vulnerabilities that pip-audit reports.
MaxVuln == 1

Reqs == 1..NumReqs

\* ------------------------------------------------------- texts of app.py
Whitespace == {" ", "\n"}

\* Prompts a client may send as the JSON string "prompt".
Prompts ==
    { <<>>, <<" ", "\n">>, <<" ", "hi", " ">>, <<"a", " ", "b">> }

\* JSON values of the "prompt" key: missing key, a non-string (null), a string.
PromptFields ==
    { [kind |-> "absent", val |-> <<>>], [kind |-> "null", val |-> <<>>] }
        \cup { [kind |-> "string", val |-> p] : p \in Prompts }

UserIdFields ==
    { [kind |-> "absent", val |-> "-"], [kind |-> "string", val |-> "u1"] }

\* The JSON bodies of POST /ask.
Bodies == [prompt : PromptFields, user_id : UserIdFields]

\* str(uuid.uuid4()): a random identifier, nothing else is known about it.
UUIDs == {"uuid-a"}

\* What the Policy Validator rewrites a text to (DetectPII, on_fail="fix").
Redacted == <<"<REDACTED>">>

\* str(e) of the exceptions guard.validate raises (ToxicLanguage,
\* on_fail="exception").
Reasons == { <<"toxic">> }

\* Texts the model returns, and str(e) of the errors of the model call.
ModelTexts == { <<"hello", " ", "there">> }

ModelErrors == { <<"quota">> }

None == <<"None">>

PromptRequired == <<"Prompt is required">>

InputPassed == <<"Input validation passed">>

OutputPassed == <<"Output validation passed">>

InputFailedPrefix == <<"Input validation failed: ">>

BlockedPrefix == <<"Guardrails blocked request: ">>

OutputModifiedPrefix == <<"Output validation modified response: ">>

ApiErrorPrefix == <<"API Error: ">>

Placeholder == <<"[Response modified by guardrails for safety]">>

ErrorText == <<"[ERROR]">>

ModelName == "gpt-4o-mini"

PhoenixUrl == "http://localhost:6006"

\* ------------------------------------------------------- pure helpers
\* str.strip(): drop the leading and the trailing whitespace.
RECURSIVE LStrip(_)
LStrip(t) ==
    IF t = <<>> THEN <<>>
    ELSE IF Head(t) \in Whitespace THEN LStrip(Tail(t)) ELSE t

RECURSIVE RStrip(_)
RStrip(t) ==
    IF t = <<>> THEN <<>>
    ELSE IF t[Len(t)] \in Whitespace THEN RStrip(SubSeq(t, 1, Len(t) - 1)) ELSE t

StripNothing(t) == t

Strip(t) == RStrip(LStrip(t))

\* data.get(key, default)
Get(field, default) == IF field.kind = "absent" THEN default ELSE field.val

\* What guard.validate(text) can do: raise, or return an outcome that has a
\* validated_output (the text, or a rewritten text) or has none.
ValidateResults(text) ==
    { [raised |-> TRUE, error |-> e, has_validated_output |-> FALSE,
       validated_output |-> <<>>] : e \in Reasons }
    \cup
    { [raised |-> FALSE, error |-> <<>>, has_validated_output |-> TRUE,
       validated_output |-> v] : v \in {text, Redacted} }
    \cup
    { [raised |-> FALSE, error |-> <<>>, has_validated_output |-> FALSE,
       validated_output |-> <<>>] }

\* What client.chat.completions.create(...) followed by
\* completion.choices[0].message.content can do: raise, or give a text.
ModelResults ==
    { [raised |-> TRUE, error |-> e, content |-> <<>>] : e \in ModelErrors }
    \cup
    { [raised |-> FALSE, error |-> <<>>, content |-> c] : c \in ModelTexts }

NoResult ==
    [raised |-> FALSE, error |-> <<>>, has_validated_output |-> FALSE,
     validated_output |-> <<>>]

NoModelResult == [raised |-> FALSE, error |-> <<>>, content |-> <<>>]

NoBody == [prompt |-> [kind |-> "absent", val |-> <<>>],
           user_id |-> [kind |-> "absent", val |-> "-"]]

NoResponse == [status |-> 0, body |-> [none |-> TRUE]]

\* ------------------------------------------------- the steps of ask()
\* Step 1, lines 68-83: the outcome of validating the prompt.
InputStepFailOpen(p, res) ==
    IF res.raised
    THEN [next |-> "call_model", prompt |-> p, passed |-> FALSE,
          action |-> InputFailedPrefix \o res.error,
          error_message |-> BlockedPrefix \o res.error]
    ELSE [next |-> "call_model",
          prompt |-> IF res.has_validated_output THEN res.validated_output ELSE p,
          passed |-> TRUE, action |-> InputPassed, error_message |-> None]

InputStepKeepOriginal(p, res) ==
    IF res.raised
    THEN [next |-> "done", prompt |-> p, passed |-> FALSE,
          action |-> InputFailedPrefix \o res.error,
          error_message |-> BlockedPrefix \o res.error]
    ELSE [next |-> "call_model", prompt |-> p,
          passed |-> TRUE, action |-> InputPassed, error_message |-> None]

InputStep(p, res) ==
    IF res.raised
    THEN [next |-> "done", prompt |-> p, passed |-> FALSE,
          action |-> InputFailedPrefix \o res.error,
          error_message |-> BlockedPrefix \o res.error]
    ELSE [next |-> "call_model",
          prompt |-> IF res.has_validated_output THEN res.validated_output ELSE p,
          passed |-> TRUE, action |-> InputPassed, error_message |-> None]

\* Step 2, lines 86-96 and the handler of lines 109-113.
ModelStepRetry(passed, res) ==
    IF res.raised
    THEN [next |-> "call_model", response_text |-> ErrorText, passed |-> FALSE,
          action |-> ApiErrorPrefix \o res.error,
          error_message |-> ApiErrorPrefix \o res.error]
    ELSE [next |-> "validate_output", response_text |-> res.content,
          passed |-> passed, action |-> <<>>, error_message |-> None]

ModelStepSilent(passed, res) ==
    IF res.raised
    THEN [next |-> "done", response_text |-> <<>>, passed |-> passed,
          action |-> ApiErrorPrefix \o res.error,
          error_message |-> ApiErrorPrefix \o res.error]
    ELSE [next |-> "validate_output", response_text |-> res.content,
          passed |-> passed, action |-> <<>>, error_message |-> None]

ModelStep(passed, res) ==
    IF res.raised
    THEN [next |-> "done", response_text |-> ErrorText, passed |-> FALSE,
          action |-> ApiErrorPrefix \o res.error,
          error_message |-> ApiErrorPrefix \o res.error]
    ELSE [next |-> "validate_output", response_text |-> res.content,
          passed |-> passed, action |-> <<>>, error_message |-> None]

\* Step 3, lines 99-107: the outcome of validating the model's text.
OutputStepLeaky(text, passed, res) ==
    IF res.raised
    THEN [response_text |-> text, passed |-> FALSE,
          action |-> OutputModifiedPrefix \o res.error]
    ELSE [response_text |->
              IF res.has_validated_output THEN res.validated_output ELSE text,
          passed |-> passed, action |-> OutputPassed]

OutputStepRaw(text, passed, res) ==
    IF res.raised
    THEN [response_text |-> Placeholder, passed |-> FALSE,
          action |-> OutputModifiedPrefix \o res.error]
    ELSE [response_text |-> text, passed |-> passed, action |-> OutputPassed]

OutputStepStillPassed(text, passed, res) ==
    IF res.raised
    THEN [response_text |-> Placeholder, passed |-> passed,
          action |-> OutputModifiedPrefix \o res.error]
    ELSE [response_text |->
              IF res.has_validated_output THEN res.validated_output ELSE text,
          passed |-> passed, action |-> OutputPassed]

OutputStep(text, passed, res) ==
    IF res.raised
    THEN [response_text |-> Placeholder, passed |-> FALSE,
          action |-> OutputModifiedPrefix \o res.error]
    ELSE [response_text |->
              IF res.has_validated_output THEN res.validated_output ELSE text,
          passed |-> passed, action |-> OutputPassed]

\* ------------------------------------------------- the responses of ask()
\* Line 57.
MissingPromptResponse == [status |-> 400, body |-> [error |-> PromptRequired]]

\* Lines 78-83.
RejectedResponseNoId(err, actions, id) ==
    [status |-> 400,
     body |-> [error |-> err, guardrails_passed |-> FALSE, actions |-> actions]]

RejectedResponse(err, actions, id) ==
    [status |-> 400,
     body |-> [error |-> err, guardrails_passed |-> FALSE, actions |-> actions,
               prediction_id |-> id]]

\* Lines 115-124; jsonify without a status is a 200.
OkResponse(id, p, text, passed, actions, user) ==
    [status |-> 200,
     body |-> [prediction_id |-> id, prompt |-> p, response |-> text,
               guardrails_passed |-> passed, guardrails_actions |-> actions,
               model |-> ModelName, user_id |-> user,
               phoenix_url |-> PhoenixUrl]]

\* Line 53 on a prompt that is no string: the AttributeError leaves ask() and
\* Flask answers 500.
ServerErrorResponse == [status |-> 500, body |-> [exception |-> "AttributeError"]]

\* ------------------------------------------------- state of the handler
VARIABLES
    pc,                 \* where each request's invocation of ask() stands
    body,               \* request.json of each request
    prompt,             \* the locals of ask(), one copy per invocation
    user_id,
    prediction_id,
    response_text,
    guardrails_passed,
    guardrails_actions,
    error_message,
    calls,              \* the external calls each invocation has made, in order
    in_result,          \* what guard.validate(prompt) did
    model_input,        \* the user message the model was called with
    model_result,       \* what the model call did
    out_result,         \* what guard.validate(response_text) did
    response            \* what ask() returned

hvars == << pc, body, prompt, user_id, prediction_id, response_text,
            guardrails_passed, guardrails_actions, error_message, calls,
            in_result, model_input, model_result, out_result, response >>

\* State of the scanner script.
VARIABLES
    spc,                \* where the script stands
    export_only,        \* args.export_only
    checks_performed,   \* self.results["checks_performed"]
    findings,           \* self.results["findings"]
    summary,            \* self.results["summary"]
    started,            \* the checks run_all_checks or main has called, in order
    uncaught,           \* the exception that left main, "none" if none did
    exit_code           \* the exit status of the process, -1 while it runs

svars == << spc, export_only, checks_performed, findings, summary, started,
            uncaught, exit_code >>

HInit ==
    /\ pc = [r \in Reqs |-> "idle"]
    /\ body = [r \in Reqs |-> NoBody]
    /\ prompt = [r \in Reqs |-> <<>>]
    /\ user_id = [r \in Reqs |-> "-"]
    /\ prediction_id = [r \in Reqs |-> "-"]
    /\ response_text = [r \in Reqs |-> <<>>]
    /\ guardrails_passed = [r \in Reqs |-> TRUE]
    /\ guardrails_actions = [r \in Reqs |-> <<>>]
    /\ error_message = [r \in Reqs |-> None]
    /\ calls = [r \in Reqs |-> <<>>]
    /\ in_result = [r \in Reqs |-> NoResult]
    /\ model_input = [r \in Reqs |-> <<>>]
    /\ model_result = [r \in Reqs |-> NoModelResult]
    /\ out_result = [r \in Reqs |-> NoResult]
    /\ response = [r \in Reqs |-> NoResponse]

\* guardrails_actions.append(entry) on the list of invocation r.
AppendActionShared(r, entry) ==
    [q \in Reqs |->
        IF pc[q] \notin {"idle", "done"}
        THEN Append(guardrails_actions[q], entry)
        ELSE guardrails_actions[q]]

AppendAction(r, entry) ==
    [guardrails_actions EXCEPT ![r] = Append(@, entry)]

\* Lines 52-64: read the body, refuse a missing prompt, set up the locals.
Begin(r) ==
    /\ pc[r] = "idle"
    /\ UNCHANGED svars
    /\ \E b \in Bodies, id \in UUIDs :
        /\ body' = [body EXCEPT ![r] = b]
        /\ IF b.prompt.kind = "null"
           THEN /\ response' = [response EXCEPT ![r] = ServerErrorResponse]
                /\ pc' = [pc EXCEPT ![r] = "done"]
                /\ UNCHANGED << prompt, user_id, prediction_id >>
           ELSE LET p == Strip(Get(b.prompt, <<>>))
                    u == Get(b.user_id, "anonymous")
                IN  /\ prompt' = [prompt EXCEPT ![r] = p]
                    /\ user_id' = [user_id EXCEPT ![r] = u]
                    /\ IF p = <<>>
                       THEN /\ response' =
                                [response EXCEPT ![r] = MissingPromptResponse]
                            /\ pc' = [pc EXCEPT ![r] = "done"]
                            /\ UNCHANGED prediction_id
                       ELSE /\ prediction_id' = [prediction_id EXCEPT ![r] = id]
                            /\ pc' = [pc EXCEPT ![r] = "validate_input"]
                            /\ UNCHANGED response
    /\ UNCHANGED << response_text, guardrails_passed, guardrails_actions,
                    error_message, calls, in_result, model_input, model_result,
                    out_result >>

\* Lines 68-83: guard.validate(prompt); a rejection is answered with 400.
ValidateInput(r) ==
    /\ pc[r] = "validate_input"
    /\ UNCHANGED svars
    /\ \E res \in ValidateResults(prompt[r]) :
        LET s == InputStep(prompt[r], res)
            acts == AppendAction(r, s.action)
        IN  /\ calls' = [calls EXCEPT ![r] = Append(@, "validate_input")]
            /\ in_result' = [in_result EXCEPT ![r] = res]
            /\ prompt' = [prompt EXCEPT ![r] = s.prompt]
            /\ guardrails_passed' = [guardrails_passed EXCEPT ![r] = s.passed]
            /\ guardrails_actions' = acts
            /\ error_message' = [error_message EXCEPT ![r] = s.error_message]
            /\ pc' = [pc EXCEPT ![r] = s.next]
            /\ response' =
                 IF s.next = "done"
                 THEN [response EXCEPT ![r] =
                         RejectedResponse(s.error_message, acts[r],
                                          prediction_id[r])]
                 ELSE response
    /\ UNCHANGED << body, user_id, prediction_id, response_text, model_input,
                    model_result, out_result >>

\* Lines 86-96, and lines 109-124 when the call raises.
CallModel(r) ==
    /\ pc[r] = "call_model"
    /\ UNCHANGED svars
    /\ \E res \in ModelResults :
        LET s == ModelStep(guardrails_passed[r], res)
            acts == IF res.raised THEN AppendAction(r, s.action)
                    ELSE guardrails_actions
        IN  /\ calls' = [calls EXCEPT ![r] = Append(@, "model")]
            /\ model_input' = [model_input EXCEPT ![r] = prompt[r]]
            /\ model_result' = [model_result EXCEPT ![r] = res]
            /\ response_text' = [response_text EXCEPT ![r] = s.response_text]
            /\ guardrails_passed' = [guardrails_passed EXCEPT ![r] = s.passed]
            /\ guardrails_actions' = acts
            /\ error_message' = [error_message EXCEPT ![r] = s.error_message]
            /\ pc' = [pc EXCEPT ![r] = s.next]
            /\ response' =
                 IF s.next = "done"
                 THEN [response EXCEPT ![r] =
                         OkResponse(prediction_id[r], prompt[r], s.response_text,
                                    s.passed, acts[r], user_id[r])]
                 ELSE response
    /\ UNCHANGED << body, prompt, user_id, prediction_id, in_result, out_result >>

\* Lines 99-107 and 115-124: guard.validate(response_text), then the answer.
ValidateOutput(r) ==
    /\ pc[r] = "validate_output"
    /\ UNCHANGED svars
    /\ \E res \in ValidateResults(response_text[r]) :
        LET s == OutputStep(response_text[r], guardrails_passed[r], res)
            acts == AppendAction(r, s.action)
        IN  /\ calls' = [calls EXCEPT ![r] = Append(@, "validate_output")]
            /\ out_result' = [out_result EXCEPT ![r] = res]
            /\ response_text' = [response_text EXCEPT ![r] = s.response_text]
            /\ guardrails_passed' = [guardrails_passed EXCEPT ![r] = s.passed]
            /\ guardrails_actions' = acts
            /\ pc' = [pc EXCEPT ![r] = "done"]
            /\ response' = [response EXCEPT ![r] =
                 OkResponse(prediction_id[r], prompt[r], s.response_text,
                            s.passed, acts[r], user_id[r])]
    /\ UNCHANGED << body, prompt, user_id, prediction_id, error_message,
                    in_result, model_input, model_result >>

\* The response is sent and everything of the invocation is discarded.
Respond(r) ==
    /\ pc[r] = "done"
    /\ UNCHANGED svars
    /\ pc' = [pc EXCEPT ![r] = "idle"]
    /\ body' = [body EXCEPT ![r] = NoBody]
    /\ prompt' = [prompt EXCEPT ![r] = <<>>]
    /\ user_id' = [user_id EXCEPT ![r] = "-"]
    /\ prediction_id' = [prediction_id EXCEPT ![r] = "-"]
    /\ response_text' = [response_text EXCEPT ![r] = <<>>]
    /\ guardrails_passed' = [guardrails_passed EXCEPT ![r] = TRUE]
    /\ guardrails_actions' = [guardrails_actions EXCEPT ![r] = <<>>]
    /\ error_message' = [error_message EXCEPT ![r] = None]
    /\ calls' = [calls EXCEPT ![r] = <<>>]
    /\ in_result' = [in_result EXCEPT ![r] = NoResult]
    /\ model_input' = [model_input EXCEPT ![r] = <<>>]
    /\ model_result' = [model_result EXCEPT ![r] = NoModelResult]
    /\ out_result' = [out_result EXCEPT ![r] = NoResult]
    /\ response' = [response EXCEPT ![r] = NoResponse]

\* =================================================== security_scan.py
\* The project that is scanned is the scanner's input: its files may be
\* missing, unreadable or have any content, and each check reads them anew.
\* The scanner's own report directory, made by __init__, is writable.

\* dict.get(key, default) on a finding.
FieldOr(f, key, default) == IF key \in DOMAIN f THEN f[key] ELSE default

\* What the three bandit runs and the reading of bandit_report.json can do.
BanditOutcomes ==
    { [kind |-> k, high |-> 0, medium |-> 0, low |-> 0] :
        k \in {"not_installed", "exception", "no_report"} }
    \cup
    { [kind |-> "report", high |-> h, medium |-> m, low |-> l] :
        h \in 0..MaxSev, m \in 0..MaxSev, l \in 0..1 }

\* What the pip-audit run and the reading of pip_audit.json can do.
AuditOutcomes ==
    { [kind |-> k, vulnerabilities |-> 0] :
        k \in {"not_installed", "exception", "nonzero_exit", "no_file"} }
    \cup
    { [kind |-> "report", vulnerabilities |-> n] : n \in 0..MaxVuln }

GitignoreStates == {"absent", "lists_env", "lacks_env", "unreadable"}

AppFileStates == {"absent", "debug", "no_debug", "unreadable"}

\* The strings check_security_controls looks for in src/app.py.
Markers ==
    { "from guardrails import Guard", "import phoenix", "from phoenix",
      "guard.validate", "DetectPII", "ToxicLanguage" }

ControlNames ==
    { "Guardrails AI", "Phoenix Observability", "Input Validation",
      "PII Detection", "Toxic Content Filter" }

\* Lines 216-238: the controls found in a file that contains `content`.
Controls(content) ==
    [c \in ControlNames |->
        CASE c = "Guardrails AI" -> "from guardrails import Guard" \in content
          [] c = "Phoenix Observability" ->
                ("import phoenix" \in content \/ "from phoenix" \in content)
          [] c = "Input Validation" -> "guard.validate" \in content
          [] c = "PII Detection" -> "DetectPII" \in content
          [] c = "Toxic Content Filter" -> "ToxicLanguage" \in content]

\* Lines 166-193: the issues of the configuration check.
ConfigIssues(env_exists, gitignore, app) ==
    (IF env_exists THEN <<>>
     ELSE << "Missing .env file - API keys may be exposed" >>)
    \o (CASE gitignore = "absent" -> << "Missing .gitignore file" >>
          [] gitignore = "lacks_env" ->
                << ".env not in .gitignore - credentials at risk" >>
          [] OTHER -> <<>>)
    \o (IF app = "debug"
        THEN << "Flask debug mode enabled - unsafe for production" >>
        ELSE <<>>)

\* Counts that take the vulnerabilities of the dependencies as high issues.
RECURSIVE BanditCountsWithDeps(_, _)
BanditCountsWithDeps(fs, acc) ==
    IF fs = <<>> THEN acc
    ELSE BanditCountsWithDeps(Tail(fs),
            IF Head(fs).check = "Bandit SAST"
            THEN [high |-> FieldOr(Head(fs), "high_severity", 0),
                  medium |-> FieldOr(Head(fs), "medium_severity", 0)]
            ELSE IF Head(fs).check = "Dependency Vulnerabilities"
            THEN [high |-> acc.high + Head(fs).vulnerabilities_found,
                  medium |-> acc.medium]
            ELSE acc)

\* Lines 263-268: the counts of the Bandit finding, 0 when there is none.
RECURSIVE BanditCounts(_, _)
BanditCounts(fs, acc) ==
    IF fs = <<>> THEN acc
    ELSE BanditCounts(Tail(fs),
            IF Head(fs).check = "Bandit SAST"
            THEN [high |-> FieldOr(Head(fs), "high_severity", 0),
                  medium |-> FieldOr(Head(fs), "medium_severity", 0)]
            ELSE acc)

\* Lines 271-279: the rule table.
PostureLenient(high_issues, medium_issues) ==
    IF high_issues > 0 /\ medium_issues > 2
    THEN [posture |-> "NEEDS ATTENTION", score |-> 60]
    ELSE IF medium_issues > 2
    THEN [posture |-> "FAIR", score |-> 75]
    ELSE [posture |-> "GOOD", score |-> 90]

Posture(high_issues, medium_issues) ==
    IF high_issues > 0
    THEN [posture |-> "NEEDS ATTENTION", score |-> 60]
    ELSE IF medium_issues > 2
    THEN [posture |-> "FAIR", score |-> 75]
    ELSE [posture |-> "GOOD", score |-> 90]

\* Lines 301-308.
Recommendation(posture) ==
    CASE posture = "GOOD" -> "Security posture is acceptable."
      [] posture = "FAIR" -> "Some security issues detected."
      [] posture = "NEEDS ATTENTION" -> "High severity issues detected."
      [] OTHER -> "Review findings and implement recommended fixes."

EmptyDict == [k \in {} |-> 0]

SInit ==
    /\ spc = "main"
    /\ export_only = FALSE
    /\ checks_performed = <<>>
    /\ findings = <<>>
    /\ summary = EmptyDict
    /\ started = <<>>
    /\ uncaught = "none"
    /\ exit_code = -1

\* An exception leaves the check, run_all_checks and main: the interpreter
\* prints the traceback and exits with status 1.
Crash(exc) ==
    /\ spc' = "exited"
    /\ uncaught' = exc
    /\ exit_code' = 1

\* Lines 396-411: parse the arguments, construct the scanner.
Main ==
    /\ spc = "main"
    /\ UNCHANGED hvars
    /\ \E e \in BOOLEAN :
        /\ export_only' = e
        /\ spc' = IF e THEN "summary" ELSE "bandit"
    /\ UNCHANGED << checks_performed, findings, summary, started, uncaught,
                    exit_code >>

\* Line 370 and lines 51-119.
RunBanditScan ==
    /\ spc = "bandit"
    /\ UNCHANGED hvars
    /\ started' = Append(started, "bandit")
    /\ \E o \in BanditOutcomes :
        IF o.kind = "report"
        THEN /\ checks_performed' = Append(checks_performed, "Bandit SAST Scan")
             /\ findings' = Append(findings,
                    [check |-> "Bandit SAST", status |-> "COMPLETED",
                     high_severity |-> o.high, medium_severity |-> o.medium,
                     low_severity |-> o.low,
                     total_issues |-> o.high + o.medium + o.low])
        ELSE UNCHANGED << checks_performed, findings >>
    /\ spc' = "deps"
    /\ UNCHANGED << export_only, summary, uncaught, exit_code >>

\* Line 371 and lines 121-160.
CheckDependencies ==
    /\ spc = "deps"
    /\ UNCHANGED hvars
    /\ started' = Append(started, "deps")
    /\ \E o \in AuditOutcomes :
        IF o.kind = "report"
        THEN /\ checks_performed' =
                    Append(checks_performed, "Dependency Vulnerability Check")
             /\ findings' = Append(findings,
                    [check |-> "Dependency Vulnerabilities",
                     status |-> "COMPLETED",
                     vulnerabilities_found |-> o.vulnerabilities])
        ELSE UNCHANGED << checks_performed, findings >>
    /\ spc' = "config"
    /\ UNCHANGED << export_only, summary, uncaught, exit_code >>

\* Line 372 and lines 162-210; open() and read() are not guarded.
ValidateApiConfiguration ==
    /\ spc = "config"
    /\ UNCHANGED hvars
    /\ started' = Append(started, "config")
    /\ \E env_exists \in BOOLEAN, g \in GitignoreStates, a \in AppFileStates :
        IF g = "unreadable" \/ a = "unreadable"
        THEN /\ Crash("OSError")
             /\ UNCHANGED << checks_performed, findings >>
        ELSE LET issues == ConfigIssues(env_exists, g, a)
             IN  /\ checks_performed' =
                        Append(checks_performed, "API Configuration Validation")
                 /\ findings' = Append(findings,
                        [check |-> "API Configuration", status |-> "COMPLETED",
                         issues_found |-> Len(issues), issues |-> issues])
                 /\ spc' = "controls"
                 /\ UNCHANGED << uncaught, exit_code >>
    /\ UNCHANGED << export_only, summary >>

\* Line 373 and lines 212-253; open() and read() are not guarded.
CheckSecurityControls ==
    /\ spc = "controls"
    /\ UNCHANGED hvars
    /\ started' = Append(started, "controls")
    /\ \/ /\ Crash("OSError")
          /\ UNCHANGED << checks_performed, findings >>
       \/ \E content \in SUBSET Markers :
            \* a missing file leaves every control False, as an empty one does
            LET controls == Controls(content)
            IN  /\ checks_performed' =
                       Append(checks_performed, "Security Controls Verification")
                /\ findings' = Append(findings,
                       [check |-> "Security Controls", status |-> "COMPLETED",
                        controls_enabled |->
                            Cardinality({c \in ControlNames : controls[c]}),
                        total_controls |-> Cardinality(ControlNames),
                        details |-> controls])
                /\ spc' = "finish_checks"
                /\ UNCHANGED << uncaught, exit_code >>
    /\ UNCHANGED << export_only, summary >>

\* Line 374 or line 409, and lines 255-299.
GenerateSummaryReport ==
    /\ spc \in {"finish_checks", "summary"}
    /\ UNCHANGED hvars
    /\ started' = Append(started, "summary")
    /\ LET counts == BanditCounts(findings, [high |-> 0, medium |-> 0])
           p == Posture(counts.high, counts.medium)
       IN  summary' =
              [security_posture |-> p.posture, security_score |-> p.score,
               total_checks |-> Len(checks_performed),
               high_severity_issues |-> counts.high,
               medium_severity_issues |-> counts.medium,
               recommendation |-> Recommendation(p.posture)]
    /\ spc' = "report"
    /\ UNCHANGED << export_only, checks_performed, findings, uncaught,
                    exit_code >>

\* Lines 376-393 and 413-417: print the summary, choose the exit status.
Exit ==
    /\ spc = "report"
    /\ UNCHANGED hvars
    /\ exit_code' =
          IF ~export_only /\ summary.high_severity_issues > 0 THEN 1 ELSE 0
    /\ spc' = "exited"
    /\ UNCHANGED << export_only, checks_performed, findings, summary, started,
                    uncaught >>

vars == << hvars, svars >>

Init == HInit /\ SInit

Next ==
    \/ \E r \in Reqs : Begin(r)
    \/ \E r \in Reqs : ValidateInput(r)
    \/ \E r \in Reqs : CallModel(r)
    \/ \E r \in Reqs : ValidateOutput(r)
    \/ \E r \in Reqs : Respond(r)

Spec == Init /\ [][Next]_vars

ScanNext ==
    \/ Main
    \/ RunBanditScan
    \/ CheckDependencies
    \/ ValidateApiConfiguration
    \/ CheckSecurityControls
    \/ GenerateSummaryReport
    \/ Exit

ScanSpec == Init /\ [][ScanNext]_vars

\* =============================================================== claims
Pipeline == << "validate_input", "model", "validate_output" >>

\* The prompt of a body is missing, empty or made of whitespace only.
BlankPrompt(b) ==
    \/ b.prompt.kind = "absent"
    \/ /\ b.prompt.kind = "string"
       /\ \A i \in 1..Len(b.prompt.val) : b.prompt.val[i] \in Whitespace

Arrived(r) == pc[r] # "idle"

InputRejected(r) == Len(calls[r]) >= 1 /\ in_result[r].raised

InputAccepted(r) == Len(calls[r]) >= 1 /\ ~in_result[r].raised

ModelFailed(r) == Len(calls[r]) >= 2 /\ model_result[r].raised

ModelSucceeded(r) == Len(calls[r]) >= 2 /\ ~model_result[r].raised

OutputRejected(r) == Len(calls[r]) >= 3 /\ out_result[r].raised

OutputAccepted(r) == Len(calls[r]) >= 3 /\ ~out_result[r].raised

Entries(log) == { log[i] : i \in 1..Len(log) }

\* C1: a request whose prompt is absent, empty or whitespace-only is answered
\* 400 "Prompt is required", and neither the validator nor the model is
\* called for it.
C1_BlankPromptRefused ==
    \A r \in Reqs :
        (Arrived(r) /\ BlankPrompt(body[r])) =>
            /\ pc[r] = "done"
            /\ response[r].status = 400
            /\ response[r].body.error = PromptRequired
            /\ calls[r] = <<>>

C1_Witness ==
    \E r \in Reqs :
        /\ pc[r] = "done"
        /\ body[r].prompt = [kind |-> "string", val |-> <<" ", "\n">>]
        /\ response[r].status = 400

\* C2: when the validator rejects the prompt, the answer is 400 with the
\* rejection reason, a log holding the rejection entry and the request
\* identifier; the model and the output validation are never called.
C2_InputRejectionAborts ==
    \A r \in Reqs :
        InputRejected(r) =>
            /\ pc[r] = "done"
            /\ response[r].status = 400
            /\ response[r].body.error = BlockedPrefix \o in_result[r].error
            /\ (InputFailedPrefix \o in_result[r].error)
                   \in Entries(response[r].body.actions)
            /\ response[r].body.prediction_id = prediction_id[r]
            /\ calls[r] = << "validate_input" >>

C2_Witness ==
    \E r \in Reqs :
        /\ InputRejected(r)
        /\ pc[r] = "done"
        /\ in_result[r].error = <<"toxic">>

\* C3: input accepted, model call succeeded, output rejected: the answer is
\* 200 with guardrails_passed false and the placeholder as response, never
\* the model's text.
C3_OutputRejectionDegrades ==
    \A r \in Reqs :
        (InputAccepted(r) /\ ModelSucceeded(r) /\ OutputRejected(r)) =>
            /\ pc[r] = "done"
            /\ response[r].status = 200
            /\ response[r].body.guardrails_passed = FALSE
            /\ response[r].body.response = Placeholder
            /\ response[r].body.response # model_result[r].content

C3_Witness ==
    \E r \in Reqs :
        /\ pc[r] = "done"
        /\ InputAccepted(r) /\ ModelSucceeded(r) /\ OutputRejected(r)
        /\ response[r].status = 200

\* C4: input accepted, model call succeeded, output accepted: the answer is
\* 200 with guardrails_passed true and, as response, the text the output
\* validation returned (the model's text when it returned none).
C4_AcceptedResponse ==
    \A r \in Reqs :
        (InputAccepted(r) /\ ModelSucceeded(r) /\ OutputAccepted(r)) =>
            /\ pc[r] = "done"
            /\ response[r].status = 200
            /\ response[r].body.guardrails_passed = TRUE
            /\ response[r].body.response =
                  IF out_result[r].has_validated_output
                  THEN out_result[r].validated_output
                  ELSE model_result[r].content

C4_Witness ==
    \E r \in Reqs :
        /\ pc[r] = "done"
        /\ InputAccepted(r) /\ ModelSucceeded(r) /\ OutputAccepted(r)
        /\ out_result[r].has_validated_output
        /\ out_result[r].validated_output = Redacted
        /\ model_result[r].content # Redacted

\* C5: input accepted and the model call raised: the error is appended to
\* the log, the answer is 200 with response "[ERROR]" and guardrails_passed
\* false, and the output validation is not called.
C5_ModelFailureDegrades ==
    \A r \in Reqs :
        (InputAccepted(r) /\ ModelFailed(r)) =>
            /\ pc[r] = "done"
            /\ response[r].status = 200
            /\ response[r].body.response = ErrorText
            /\ response[r].body.guardrails_passed = FALSE
            /\ (ApiErrorPrefix \o model_result[r].error)
                   \in Entries(response[r].body.guardrails_actions)
            /\ calls[r] = << "validate_input", "model" >>

C5_Witness ==
    \E r \in Reqs :
        /\ pc[r] = "done"
        /\ InputAccepted(r) /\ ModelFailed(r)
        /\ response[r].status = 200

RejectionFields == {"error", "guardrails_passed", "actions", "prediction_id"}

\* C6 as stated: every 400 answer has the four fields error,
\* guardrails_passed (false), actions and prediction_id.
C6_Every400HasFourFields ==
    \A r \in Reqs :
        (pc[r] = "done" /\ response[r].status = 400) =>
            /\ RejectionFields \subseteq DOMAIN response[r].body
            /\ response[r].body.guardrails_passed = FALSE

\* C6, amended: a 400 answer to a prompt the validator rejected has the four
\* fields error, guardrails_passed (false), actions and prediction_id; a 400
\* answer to a missing or empty prompt has the field error alone.
C6_Fields400 ==
    \A r \in Reqs :
        (pc[r] = "done" /\ response[r].status = 400) =>
            IF InputRejected(r)
            THEN /\ DOMAIN response[r].body = RejectionFields
                 /\ response[r].body.guardrails_passed = FALSE
            ELSE /\ BlankPrompt(body[r])
                 /\ DOMAIN response[r].body = {"error"}

C6_Witness ==
    \E r, q \in Reqs :
        /\ pc[r] = "done" /\ response[r].status = 400 /\ InputRejected(r)
        /\ pc[q] = "done" /\ response[q].status = 400 /\ BlankPrompt(body[q])

AllChecks == << "bandit", "deps", "config", "controls", "summary" >>

\* C7: a run of run_all_checks starts the five checks in their order,
\* whatever fails, and produces the summary.
C7_AllChecksRun ==
    (spc = "exited" /\ ~export_only) =>
        /\ started = AllChecks
        /\ DOMAIN summary # {}

\* C8: the summary's score follows the rule table: a high-severity finding
\* gives 60 NEEDS ATTENTION whatever the medium count, else more than two
\* medium findings give 75 FAIR, else 90 GOOD.
C8_ScoreTable ==
    (DOMAIN summary # {}) =>
        LET h == summary.high_severity_issues
            m == summary.medium_severity_issues
        IN  /\ h >= 0 /\ m >= 0
            /\ summary.security_score \in {60, 75, 90}
            /\ (h > 0) =>
                  /\ summary.security_score = 60
                  /\ summary.security_posture = "NEEDS ATTENTION"
            /\ (h = 0 /\ m > 2) =>
                  /\ summary.security_score = 75
                  /\ summary.security_posture = "FAIR"
            /\ (h = 0 /\ m <= 2) =>
                  /\ summary.security_score = 90
                  /\ summary.security_posture = "GOOD"

C8_Witness ==
    /\ DOMAIN summary # {}
    /\ summary.high_severity_issues = 0
    /\ summary.medium_severity_issues = 3
    /\ summary.security_score = 75

\* C9: within one invocation the external calls are a prefix of validator
\* (input), model, validator (output), so none is made twice; a later call
\* is made only after the earlier one succeeded; and a failed call ends the
\* invocation with a response.
C9_OrderNoRetry ==
    \A r \in Reqs :
        /\ Len(calls[r]) <= 3
        /\ calls[r] = SubSeq(Pipeline, 1, Len(calls[r]))
        /\ Len(calls[r]) >= 2 => ~in_result[r].raised
        /\ Len(calls[r]) >= 3 => ~model_result[r].raised
        /\ (InputRejected(r) \/ ModelFailed(r) \/ OutputRejected(r)) =>
              /\ pc[r] = "done"
              /\ response[r].status \in {200, 400}

C9_Witness ==
    \E r \in Reqs :
        /\ pc[r] = "done"
        /\ calls[r] = Pipeline
        /\ OutputRejected(r)

\* What ask() returns when it runs alone on body b, with identifier id and
\* with ir, mr, outr as the outcomes of its three external calls.
AloneResponse(b, id, ir, mr, outr) ==
    IF b.prompt.kind = "null" THEN ServerErrorResponse
    ELSE
    LET p0 == Strip(Get(b.prompt, <<>>))
        u == Get(b.user_id, "anonymous")
        s1 == InputStep(p0, ir)
        log1 == << s1.action >>
        s2 == ModelStep(s1.passed, mr)
        log2 == IF mr.raised THEN Append(log1, s2.action) ELSE log1
        s3 == OutputStep(s2.response_text, s2.passed, outr)
        log3 == Append(log2, s3.action)
    IN  IF p0 = <<>> THEN MissingPromptResponse
        ELSE IF s1.next = "done"
        THEN RejectedResponse(s1.error_message, log1, id)
        ELSE IF s2.next = "done"
        THEN OkResponse(id, s1.prompt, s2.response_text, s2.passed, log2, u)
        ELSE OkResponse(id, s1.prompt, s3.response_text, s3.passed, log3, u)

\* C10: whatever the other requests do meanwhile, the answer to a request is
\* the one ask() gives when it runs alone on the same body with the same
\* outcomes of its own external calls; its log holds its own entries only.
C10_RequestsIsolated ==
    \A r \in Reqs :
        pc[r] = "done" =>
            response[r] = AloneResponse(body[r], prediction_id[r],
                                        in_result[r], model_result[r],
                                        out_result[r])

C10_Witness ==
    \E r, q \in Reqs :
        /\ r # q
        /\ pc[r] = "done" /\ calls[r] = Pipeline
        /\ pc[q] = "validate_output"
        /\ body[q] # body[r]
        /\ prompt[q] # prompt[r]

\* The prompt ask() works with once the input validation has accepted it.
WorkingPrompt(r) ==
    IF in_result[r].has_validated_output
    THEN in_result[r].validated_output
    ELSE Strip(Get(body[r].prompt, <<>>))

\* C11: once the input validation has accepted the prompt, the working
\* prompt is the validator's text (the stripped prompt when it returned
\* none) and "Input validation passed" is in the log before the model is
\* called; the model is called with that text, and every 200 answer echoes
\* it in its prompt field.
C11_ReplacedPromptUsed ==
    \A r \in Reqs :
        InputAccepted(r) =>
            /\ prompt[r] = WorkingPrompt(r)
            /\ Len(guardrails_actions[r]) >= 1
            /\ guardrails_actions[r][1] = InputPassed
            /\ Len(calls[r]) >= 2 => model_input[r] = WorkingPrompt(r)
            /\ pc[r] = "done" =>
                  /\ response[r].status = 200
                  /\ response[r].body.prompt = WorkingPrompt(r)

C11_Witness ==
    \E r \in Reqs :
        /\ pc[r] = "done"
        /\ InputAccepted(r) /\ ModelFailed(r)
        /\ in_result[r].has_validated_output
        /\ in_result[r].validated_output = Redacted
        /\ Strip(Get(body[r].prompt, <<>>)) # Redacted
        /\ model_input[r] = Redacted
        /\ response[r].body.prompt = Redacted

\* C12: the log of a 200 answer has exactly two entries, the first is
\* "Input validation passed", and guardrails_passed is true exactly when the
\* second is "Output validation passed", that is when the three calls all
\* succeeded; the log of a 400 answer to a rejected prompt has exactly one
\* entry, the input-validation-failed one.
C12_LogShape ==
    \A r \in Reqs :
        /\ (pc[r] = "done" /\ response[r].status = 200) =>
              LET log == response[r].body.guardrails_actions
              IN  /\ Len(log) = 2
                  /\ log[1] = InputPassed
                  /\ response[r].body.guardrails_passed <=> (log[2] = OutputPassed)
                  /\ response[r].body.guardrails_passed <=>
                        (InputAccepted(r) /\ ModelSucceeded(r) /\ OutputAccepted(r))
        /\ (pc[r] = "done" /\ response[r].status = 400 /\ InputRejected(r)) =>
              response[r].body.actions =
                  << InputFailedPrefix \o in_result[r].error >>

C12_Witness ==
    \E r, q \in Reqs :
        /\ pc[r] = "done" /\ response[r].status = 200
        /\ ~response[r].body.guardrails_passed
        /\ OutputRejected(r)
        /\ pc[q] = "done" /\ response[q].status = 400 /\ InputRejected(q)

NoBanditFinding ==
    \A i \in 1..Len(findings) : findings[i].check # "Bandit SAST"

SummaryProduced == DOMAIN summary # {}

====
